---- MODULE Spec2Model ----
(***************************************************************************)
(* Model of internal/database/seeder.go: the Seeder loads .sql seed files  *)
(* from a directory (LoadSeeds) and executes them one transaction per seed *)
(* (Seed / executeSeed).  Strings are sequences of one-character strings.  *)
(***************************************************************************)
EXTENDS Integers, Sequences, FiniteSets, TLC

VARIABLES
    seeds,      \* s.seeds
    loadErr,    \* the value the last LoadSeeds call returned
    loads,      \* number of LoadSeeds calls made
    prevSeeds,  \* s.seeds when the last LoadSeeds call was made
    lastDir,    \* the directory the last LoadSeeds call was given
    lastFiles,  \* what ioutil.ReadDir returned to the last LoadSeeds call
    runs,       \* number of Seed calls made
    pc,         \* where the current Seed call stands, "idle" outside a call
    idx,        \* position of the range loop of Seed
    runSeeds,   \* the slice the range loop of the last Seed call iterates
    trace,      \* the calls the last Seed call made on the database, in order
    db,         \* the rows committed to the database
    db0,        \* the rows in the database when the last Seed call was made
    out,        \* the seed names the last Seed call printed
    runErr      \* the value the last Seed call returned

vars == <<seeds, loadErr, loads, prevSeeds, lastDir, lastFiles,
          runs, pc, idx, runSeeds, trace, db, db0, out, runErr>>

\* ---- bounds ----
MaxLoads == 2
MaxRuns == 2
\* longest file content tried by SpecParse
MaxContent == 4

\* ---- strings ----
\* the characters used in file names, in byte order
Alphabet == <<".", "L", "Q", "S", "X", "a", "b", "c", "d", "k", "l", "n", "q", "s", "t", "x">>

Ord(c) == CHOOSE i \in 1..Len(Alphabet) : Alphabet[i] = c

\* Go's string comparison a < b: bytewise lexicographic
StringLess(a, b) ==
    \E k \in 1..Len(b) :
        /\ k - 1 <= Len(a)
        /\ \A j \in 1..(k - 1) : a[j] = b[j]
        /\ \/ k = Len(a) + 1
           \/ k <= Len(a) /\ Ord(a[k]) < Ord(b[k])

\* index of the last occurrence of c in s, 0 if there is none
LastIndex(s, c) ==
    IF \E i \in 1..Len(s) : s[i] = c
    THEN CHOOSE i \in 1..Len(s) : s[i] = c /\ \A j \in (i + 1)..Len(s) : s[j] # c
    ELSE 0

\* an extension taken from the first dot of the final element up to the next
ExtFirstDot(path) ==
    LET base == SubSeq(path, LastIndex(path, "/") + 1, Len(path))
        dots == {i \in DOMAIN base : base[i] = "."}
    IN IF dots = {} THEN <<>>
       ELSE LET first == CHOOSE i \in dots : \A j \in dots : i <= j
                rest == {j \in dots : j > first}
                stop == IF rest = {} THEN Len(base)
                        ELSE (CHOOSE i \in rest : \A j \in rest : i <= j) - 1
            IN SubSeq(base, first, stop)

\* filepath.Ext: the suffix beginning at the final dot of the final element
Ext(path) ==
    LET base == SubSeq(path, LastIndex(path, "/") + 1, Len(path))
        dot == LastIndex(base, ".")
    IN IF dot = 0 THEN <<>> ELSE SubSeq(base, dot, Len(base))

\* filepath.Join(dir, name)
Join(dir, name) == dir \o <<"/">> \o name

\* filepath.Base: the last element of the path
Base(path) == SubSeq(path, LastIndex(path, "/") + 1, Len(path))

Whitespace == {" ", "\n", "\t"}

\* a trim that drops every white space character, interior ones too
TrimAllSpace(s) == SelectSeq(s, LAMBDA c : c \notin Whitespace)

\* strings.TrimSpace: drop leading and trailing white space only
TrimSpace(s) ==
    IF \A i \in 1..Len(s) : s[i] \in Whitespace
    THEN <<>>
    ELSE LET lo == CHOOSE i \in 1..Len(s) :
                       s[i] \notin Whitespace /\ \A j \in 1..(i - 1) : s[j] \in Whitespace
             hi == CHOOSE i \in 1..Len(s) :
                       s[i] \notin Whitespace /\ \A j \in (i + 1)..Len(s) : s[j] \in Whitespace
         IN SubSeq(s, lo, hi)

\* ---- the file system LoadSeeds reads ----
aSql == <<"a", ".", "s", "q", "l">>
bSql == <<"b", ".", "s", "q", "l">>
cSql == <<"c", ".", "s", "q", "l">>
dSql == <<"d", ".", "s", "q", "l">>
nTxt == <<"n", ".", "t", "x", "t">>
sBak == <<"s", ".", "s", "q", "l", ".", "b", "a", "k">>
xSQL == <<"X", ".", "S", "Q", "L">>

File(name, content) == [Name |-> name, IsDir |-> FALSE, Readable |-> TRUE, Content |-> content]
Unreadable(name) == [Name |-> name, IsDir |-> FALSE, Readable |-> FALSE, Content |-> <<>>]
SubDir(name) == [Name |-> name, IsDir |-> TRUE, Readable |-> FALSE, Content |-> <<>>]

\* "i" is a plain insert of a fixed primary key, "u" a statement safe to re-apply
InsA == <<" ", "i", ";", "\n">>
UpdB == <<"u", ";", "\n", "\n", "u", ";", " ">>
InsC == <<"\n", "i", " ", "i", ";">>
UpdA == <<"u", ";">>

\* the directories LoadSeeds is called with: entries is the directory's
\* content in the order the file system enumerates it
Dirs == {
    [path |-> <<"s">>, exists |-> TRUE,
     entries |-> <<File(bSql, UpdB), File(nTxt, UpdA), File(aSql, InsA)>>],
    [path |-> <<"v">>, exists |-> TRUE,
     entries |-> <<File(nTxt, UpdA), File(aSql, InsA), File(bSql, UpdB)>>],
    [path |-> <<"t">>, exists |-> TRUE,
     entries |-> <<File(sBak, InsA), File(cSql, InsC), File(xSQL, InsA), File(aSql, UpdA)>>],
    [path |-> <<"r">>, exists |-> TRUE,
     entries |-> <<File(cSql, InsC), File(aSql, InsA), Unreadable(bSql)>>],
    [path |-> <<"e">>, exists |-> TRUE,
     entries |-> <<File(nTxt, UpdA), SubDir(<<"k">>)>>],
    [path |-> <<"u">>, exists |-> TRUE,
     entries |-> <<SubDir(dSql), File(bSql, UpdB)>>],
    [path |-> <<"m">>, exists |-> FALSE, entries |-> <<>>] }

\* ---- errors: fmt.Errorf(msg [name]: %w cause) ----
NoName == <<>>
Nil == [msg |-> "", name |-> NoName, wraps |-> {}]
Errorf(msg, name, cause) == [msg |-> msg, name |-> name, wraps |-> {cause}]

\* ---- sorting ----
Remove(s, i) == SubSeq(s, 1, i - 1) \o SubSeq(s, i + 1, Len(s))

\* the less function with the comparison turned round
SeedGreater(a, b) == StringLess(b.Name, a.Name)

\* the less function LoadSeeds gives to sort.Slice
SeedLess(a, b) == StringLess(a.Name, b.Name)

\* sort.Slice(s, less): the sort is not stable, so every ordering of s in
\* which no element is less than an earlier one is a possible result
RECURSIVE SortSlice(_)
SortSlice(s) ==
    IF s = <<>> THEN {<<>>}
    ELSE UNION {{<<s[i]>> \o t : t \in SortSlice(Remove(s, i))} :
                i \in {k \in 1..Len(s) : \A j \in 1..Len(s) : ~SeedLess(s[j], s[k])}}

\* the final sort leaving the first element where it is
SortSeedsFromSecond(s) ==
    IF s = <<>> THEN {<<>>} ELSE {<<s[1]>> \o t : t \in SortSlice(Tail(s))}

\* LoadSeeds without its final sort
SortSeedsOmitted(s) == {s}

\* the sort at the end of LoadSeeds: the possible values of s.seeds after it
SortSeeds(s) == SortSlice(s)

\* the entries sorted by file name; file names are unique inside a directory
RECURSIVE SortByName(_)
SortByName(files) ==
    IF files = <<>> THEN <<>>
    ELSE LET k == CHOOSE m \in DOMAIN files :
                      \A n \in DOMAIN files : ~StringLess(files[n].Name, files[m].Name)
         IN <<files[k]>> \o SortByName(Remove(files, k))

\* ReadDir whose error is not seen: a directory that cannot be listed reads
\* as an empty one
ReadDirNoError(d) == [err |-> FALSE, files |-> IF d.exists THEN SortByName(d.entries) ELSE <<>>]

\* ioutil.ReadDir: the entries of the directory sorted by file name, or an
\* error when the directory cannot be listed
ReadDir(d) ==
    IF d.exists THEN [err |-> FALSE, files |-> SortByName(d.entries)]
    ELSE [err |-> TRUE, files |-> <<>>]

\* ioutil.ReadFile of a directory entry: fails on a directory or an unreadable file
ReadFile(dir, e) == IF e.IsDir \/ ~e.Readable THEN [err |-> TRUE, content |-> <<>>]
                    ELSE [err |-> FALSE, content |-> e.Content]

\* parseSeedFile(filepath.Join(dir, file.Name()))
parseSeedFile(dir, e) ==
    LET filename == Join(dir, e.Name)
        r == ReadFile(dir, e)
    IN IF r.err THEN [err |-> TRUE, seed |-> [Name |-> <<>>, SQL |-> <<>>]]
       ELSE [err |-> FALSE, seed |-> [Name |-> Base(filename), SQL |-> TrimSpace(r.content)]]

\* the loop going on with the next file when a seed file cannot be parsed
RECURSIVE LoadLoopSkip(_, _, _)
LoadLoopSkip(dir, files, acc) ==
    IF files = <<>> THEN [seeds |-> acc, err |-> Nil]
    ELSE LET file == Head(files) IN
         IF Ext(file.Name) = <<".", "s", "q", "l">>
         THEN LET p == parseSeedFile(dir, file) IN
              IF p.err
              THEN LoadLoopSkip(dir, Tail(files), acc)
              ELSE LoadLoopSkip(dir, Tail(files), Append(acc, p.seed))
         ELSE LoadLoopSkip(dir, Tail(files), acc)

\* the loop leaving out a file whose name is already in the sequence
RECURSIVE LoadLoopDedup(_, _, _)
LoadLoopDedup(dir, files, acc) ==
    IF files = <<>> THEN [seeds |-> acc, err |-> Nil]
    ELSE LET file == Head(files) IN
         IF Ext(file.Name) = <<".", "s", "q", "l">>
         THEN LET p == parseSeedFile(dir, file) IN
              IF p.err
              THEN [seeds |-> acc, err |-> Errorf("failed to parse seed file", file.Name, "read")]
              ELSE IF \E i \in DOMAIN acc : acc[i].Name = p.seed.Name
                   THEN LoadLoopDedup(dir, Tail(files), acc)
                   ELSE LoadLoopDedup(dir, Tail(files), Append(acc, p.seed))
         ELSE LoadLoopDedup(dir, Tail(files), acc)

\* the for loop of LoadSeeds over files[k..]: the seeds appended and the
\* error returned from inside the loop, if any
RECURSIVE LoadLoop(_, _, _)
LoadLoop(dir, files, acc) ==
    IF files = <<>> THEN [seeds |-> acc, err |-> Nil]
    ELSE LET file == Head(files) IN
         IF Ext(file.Name) = <<".", "s", "q", "l">>
         THEN LET p == parseSeedFile(dir, file) IN
              IF p.err
              THEN [seeds |-> acc, err |-> Errorf("failed to parse seed file", file.Name, "read")]
              ELSE LoadLoop(dir, Tail(files), Append(acc, p.seed))
         ELSE LoadLoop(dir, Tail(files), acc)

Init ==
    /\ seeds = <<>>
    /\ prevSeeds = <<>>
    /\ lastDir = [path |-> <<>>, exists |-> FALSE, entries |-> <<>>]
    /\ lastFiles = <<>>
    /\ loadErr = Nil
    /\ loads = 0
    /\ runs = 0
    /\ pc = "idle"
    /\ idx = 0
    /\ trace = <<>>
    /\ db = {}
    /\ db0 = {}
    /\ runSeeds = <<>>
    /\ out = <<>>
    /\ runErr = Nil

runVars == <<runs, pc, idx, runSeeds, trace, db, db0, out, runErr>>

\* the body of LoadSeeds called with the directory d
Load(d) ==
    LET rd == ReadDir(d) IN
    /\ loads' = loads + 1
    /\ prevSeeds' = seeds
    /\ lastDir' = d
    /\ lastFiles' = rd.files
    /\ IF rd.err
       THEN /\ loadErr' = Errorf("failed to read seeds directory", NoName, "readdir")
            /\ seeds' = seeds
       ELSE LET l == LoadLoop(d.path, rd.files, seeds) IN
            IF l.err # Nil
            THEN /\ loadErr' = l.err
                 /\ seeds' = l.seeds
            ELSE /\ loadErr' = Nil
                 /\ seeds' \in SortSeeds(l.seeds)

\* func (s *Seeder) LoadSeeds(dir string) error
LoadSeeds ==
    /\ pc = "idle"
    /\ loads < MaxLoads
    /\ \E d \in Dirs : Load(d)
    /\ UNCHANGED runVars

loadVars == <<seeds, loadErr, loads, prevSeeds, lastDir, lastFiles>>

\* ---- the database behind s.db ----
\* the rows a committed SQL text leaves: a text with a plain insert leaves the
\* row of its fixed primary key (identified by the text), any other text none
Rows(sql) == IF \E i \in 1..Len(sql) : sql[i] = "i" THEN {sql} ELSE {}

\* inserting a primary key that is already there violates uniqueness
Conflicts(sql) == Rows(sql) \cap db # {}

Event(op, i, ok) == [op |-> op, i |-> i, ok |-> ok]

\* the call tx.Exec(sql) made in the transaction of seed i
ExecEvent(i, sql, ok) == [op |-> "exec", i |-> i, ok |-> ok, sql |-> sql]

\* a Seed call that takes up where the call before it stopped
SeedCallResume ==
    /\ pc = "idle"
    /\ runs < MaxRuns
    /\ runs' = runs + 1
    /\ pc' = "loop"
    /\ idx' = IF runs = 0 THEN 1 ELSE idx
    /\ trace' = <<>>
    /\ out' = <<>>
    /\ runErr' = Nil
    /\ runSeeds' = seeds
    /\ db0' = db
    /\ UNCHANGED <<db, loadVars>>

\* func (s *Seeder) Seed() error: the call
SeedCall ==
    /\ pc = "idle"
    /\ runs < MaxRuns
    /\ runs' = runs + 1
    /\ pc' = "loop"
    /\ idx' = 1
    /\ trace' = <<>>
    /\ out' = <<>>
    /\ runErr' = Nil
    /\ runSeeds' = seeds
    /\ db0' = db
    /\ UNCHANGED <<db, loadVars>>

\* Seed refusing to run when no seed was loaded
SeedReturnNoSeeds ==
    /\ pc = "loop"
    /\ idx > Len(seeds)
    /\ pc' = "idle"
    /\ runErr' = IF seeds = <<>> THEN Errorf("no seeds loaded", NoName, "empty") ELSE Nil
    /\ UNCHANGED <<runs, idx, runSeeds, trace, db, db0, out, loadVars>>

\* Seed: the range loop is exhausted, return nil
SeedReturn ==
    /\ pc = "loop"
    /\ idx > Len(seeds)
    /\ pc' = "idle"
    /\ runErr' = Nil
    /\ UNCHANGED <<runs, idx, runSeeds, trace, db, db0, out, loadVars>>

\* the error executeSeed returns when s.db.Begin() fails
BeginError(seed) == Errorf("error starting transaction", NoName, "begin")

\* executeSeed: tx, err := s.db.Begin()
Begin ==
    /\ pc = "loop"
    /\ idx <= Len(seeds)
    /\ \E ok \in BOOLEAN :
         /\ trace' = Append(trace, Event("begin", idx, ok))
         /\ IF ok
            THEN pc' = "begun" /\ runErr' = runErr
            ELSE pc' = "idle" /\ runErr' = BeginError(seeds[idx])
    /\ UNCHANGED <<runs, idx, runSeeds, db, db0, out, loadVars>>

\* Exec with the rollback and the return of the failure branch left out
ExecNoReturn ==
    /\ pc = "begun"
    /\ \E ok \in (IF Conflicts(seeds[idx].SQL) THEN {FALSE} ELSE BOOLEAN) :
         /\ trace' = Append(trace, ExecEvent(idx, seeds[idx].SQL, ok))
         /\ pc' = IF ok THEN "commit" ELSE "print"
    /\ UNCHANGED <<runs, idx, runSeeds, db, db0, out, runErr, loadVars>>

\* Exec whose failure returns the error and leaves the transaction as it is
ExecNoRollback ==
    /\ pc = "begun"
    /\ \E ok \in (IF Conflicts(seeds[idx].SQL) THEN {FALSE} ELSE BOOLEAN) :
         /\ trace' = Append(trace, ExecEvent(idx, seeds[idx].SQL, ok))
         /\ pc' = IF ok THEN "commit" ELSE "idle"
         /\ runErr' = IF ok THEN runErr ELSE Errorf("error executing seed", seeds[idx].Name, "exec")
    /\ UNCHANGED <<runs, idx, runSeeds, db, db0, out, loadVars>>

\* executeSeed: tx.Exec(seed.SQL)
Exec ==
    /\ pc = "begun"
    /\ \E ok \in (IF Conflicts(seeds[idx].SQL) THEN {FALSE} ELSE BOOLEAN) :
         /\ trace' = Append(trace, ExecEvent(idx, seeds[idx].SQL, ok))
         /\ pc' = IF ok THEN "commit" ELSE "rollback"
    /\ UNCHANGED <<runs, idx, runSeeds, db, db0, out, runErr, loadVars>>

\* the error executeSeed returns after a failed Exec: the result of
\* tx.Rollback() is discarded
ExecError(seed, rollbackOk) == Errorf("error executing seed", seed.Name, "exec")

\* Rollback that goes on with the next seed instead of returning
RollbackContinue ==
    /\ pc = "rollback"
    /\ \E ok \in BOOLEAN : trace' = Append(trace, Event("rollback", idx, ok))
    /\ idx' = idx + 1
    /\ pc' = "loop"
    /\ UNCHANGED <<runs, runSeeds, db, db0, out, runErr, loadVars>>

\* executeSeed: tx.Rollback(); return fmt.Errorf("error executing seed ...")
Rollback ==
    /\ pc = "rollback"
    /\ \E ok \in BOOLEAN :
         /\ trace' = Append(trace, Event("rollback", idx, ok))
         /\ runErr' = ExecError(seeds[idx], ok)
    /\ pc' = "idle"
    /\ UNCHANGED <<runs, idx, runSeeds, db, db0, out, loadVars>>

\* the error executeSeed returns when tx.Commit() fails
CommitError(seed) == Errorf("error committing seed", seed.Name, "commit")

\* Commit whose failure is followed by a rollback of the transaction
CommitThenRollback ==
    /\ pc = "commit"
    /\ \E ok \in BOOLEAN :
         /\ trace' = Append(trace, Event("commit", idx, ok))
         /\ IF ok
            THEN /\ db' = db \cup Rows(seeds[idx].SQL)
                 /\ pc' = "print"
            ELSE /\ db' = db
                 /\ pc' = "rollback"
    /\ UNCHANGED <<runs, idx, runSeeds, db0, out, runErr, loadVars>>

\* Commit whose failure undoes what the run committed before
CommitUndoRun ==
    /\ pc = "commit"
    /\ \E ok \in BOOLEAN :
         /\ trace' = Append(trace, Event("commit", idx, ok))
         /\ IF ok
            THEN /\ db' = db \cup Rows(seeds[idx].SQL)
                 /\ pc' = "print"
                 /\ runErr' = runErr
            ELSE /\ db' = db0
                 /\ pc' = "idle"
                 /\ runErr' = CommitError(seeds[idx])
    /\ UNCHANGED <<runs, idx, runSeeds, db0, out, loadVars>>

\* executeSeed: tx.Commit()
Commit ==
    /\ pc = "commit"
    /\ \E ok \in BOOLEAN :
         /\ trace' = Append(trace, Event("commit", idx, ok))
         /\ IF ok
            THEN /\ db' = db \cup Rows(seeds[idx].SQL)
                 /\ pc' = "print"
                 /\ runErr' = runErr
            ELSE /\ db' = db
                 /\ pc' = "idle"
                 /\ runErr' = CommitError(seeds[idx])
    /\ UNCHANGED <<runs, idx, runSeeds, db0, out, loadVars>>

\* executeSeed returning nil without the progress notice
PrintfOmitted ==
    /\ pc = "print"
    /\ idx' = idx + 1
    /\ pc' = "loop"
    /\ UNCHANGED <<runs, runSeeds, trace, db, db0, out, runErr, loadVars>>

\* executeSeed: fmt.Printf("Executed seed: %s\n", seed.Name); return nil,
\* and the loop of Seed moves to the next seed
Printf ==
    /\ pc = "print"
    /\ out' = Append(out, seeds[idx].Name)
    /\ idx' = idx + 1
    /\ pc' = "loop"
    /\ UNCHANGED <<runs, runSeeds, trace, db, db0, runErr, loadVars>>

Next ==
    \/ LoadSeeds
    \/ SeedCall
    \/ SeedReturn
    \/ Begin
    \/ Exec
    \/ Rollback
    \/ Commit
    \/ Printf

Spec == Init /\ [][Next]_vars

\* ---- properties of a run ----
Returned == pc = "idle" /\ runs > 0

Is(p, op) == trace[p].op = op
Ends(r, p) == trace[r].op \in {"commit", "rollback"} /\ trace[r].i = trace[p].i

\* the transactions begun and not yet committed or rolled back
OpenTx == {p \in DOMAIN trace : /\ Is(p, "begin") /\ trace[p].ok
                                /\ ~\E r \in (p + 1)..Len(trace) : Ends(r, p)}

\* the rows of the seeds the run committed in trace[1..n]
CommittedRows(n) ==
    UNION {Rows(runSeeds[trace[p].i].SQL) : p \in {q \in 1..n : Is(q, "commit") /\ trace[q].ok}}

\* C1: transactions are begun in stored order, the transaction of a seed is
\* committed or rolled back before the transaction of any later seed is
\* begun, and at most one transaction is open at any moment
C1_OneTransactionAtATime ==
    /\ Cardinality(OpenTx) <= 1
    /\ \A p, q \in DOMAIN trace :
         p < q /\ Is(p, "begin") /\ Is(q, "begin") =>
             /\ trace[p].i < trace[q].i
             /\ trace[p].ok => \E r \in (p + 1)..(q - 1) : Ends(r, p)

C1_Witness ==
    \E p, q \in DOMAIN trace :
        /\ p < q /\ Is(p, "begin") /\ Is(q, "begin")
        /\ trace[p].ok /\ trace[q].ok

\* C2: when the execution of seed i fails, the only call that follows in the
\* run is the rollback of seed i's transaction: seed i is never committed, the
\* database holds what it held when the transaction was begun, and nothing is
\* begun or executed for the seeds after i
C2_ExecFailureRollsBackAndStops ==
    \A p \in DOMAIN trace :
        Is(p, "exec") /\ ~trace[p].ok =>
            /\ \A q \in DOMAIN trace : Is(q, "commit") => trace[q].i # trace[p].i
            /\ \A q \in (p + 1)..Len(trace) :
                 q = p + 1 /\ Is(q, "rollback") /\ trace[q].i = trace[p].i
            /\ pc \in {"rollback", "idle"}
            /\ pc = "idle" => Len(trace) = p + 1
            /\ db = db0 \cup CommittedRows(p - 1)

C2_Witness ==
    /\ Returned
    /\ \E p \in DOMAIN trace :
         /\ Is(p, "exec") /\ ~trace[p].ok
         /\ 1 < trace[p].i /\ trace[p].i < Len(runSeeds)
         /\ Rows(runSeeds[trace[p].i].SQL) # {}

\* C3: when a run has failed at seed i, the seeds committed in the run are
\* exactly 1..i-1, each committed once and none rolled back, and the database
\* holds their rows on top of what it held before the run
C3_CommittedPrefixStays ==
    Returned /\ runErr # Nil =>
        LET i == trace[Len(trace)].i IN
        /\ i = idx
        /\ \A j \in 1..(i - 1) :
             Cardinality({p \in DOMAIN trace : Is(p, "commit") /\ trace[p].ok /\ trace[p].i = j}) = 1
        /\ \A p \in DOMAIN trace :
             /\ Is(p, "commit") /\ trace[p].ok => trace[p].i < i
             /\ Is(p, "rollback") => trace[p].i = i
        /\ db = db0 \cup UNION {Rows(runSeeds[j].SQL) : j \in 1..(i - 1)}

C3_Witness ==
    /\ Returned /\ runErr # Nil
    /\ idx = 3
    /\ db # db0
    /\ Is(Len(trace), "commit")

\* C4: when the execution of a seed fails and the rollback fails too, the
\* error the run returns carries the rollback failure
C4_RollbackFailureReported ==
    Returned /\ trace # <<>> /\ Is(Len(trace), "rollback") /\ ~trace[Len(trace)].ok =>
        "rollback" \in runErr.wraps

\* C5: every error a run returns names the seed that failed
C5_ErrorNamesSeed ==
    Returned /\ runErr # Nil => runErr.name = runSeeds[idx].Name

\* ---- properties of a load ----
IsSql(name) == Len(name) >= 4 /\ SubSeq(name, Len(name) - 3, Len(name)) = <<".", "s", "q", "l">>
CannotBeRead(f) == f.IsDir \/ ~f.Readable
SeedOf(f) == [Name |-> f.Name, SQL |-> TrimSpace(f.Content)]

\* the seeds of the .sql files among files[1..n], in that order
RECURSIVE SeedsOf(_, _)
SeedsOf(files, n) ==
    IF n = 0 THEN <<>>
    ELSE IF IsSql(files[n].Name) THEN Append(SeedsOf(files, n - 1), SeedOf(files[n]))
         ELSE SeedsOf(files, n - 1)

Range(s) == {s[i] : i \in DOMAIN s}
Count(s, x) == Cardinality({i \in DOMAIN s : s[i] = x})
IsPermutation(s, t) == Len(s) = Len(t) /\ \A i \in DOMAIN s : Count(s, s[i]) = Count(t, s[i])
Ascending(s) == \A i, j \in DOMAIN s : i < j => ~StringLess(s[j].Name, s[i].Name)
IsPrefix(s, t) == Len(s) <= Len(t) /\ SubSeq(t, 1, Len(s)) = s

LoadOk == loads > 0 /\ loadErr = Nil

\* C6 as stated: after a successful load the sequence held before the call
\* is a prefix of the sequence, followed by the new seeds in ascending order
C6_PrefixKept ==
    LoadOk => /\ IsPrefix(prevSeeds, seeds)
              /\ Ascending(SubSeq(seeds, Len(prevSeeds) + 1, Len(seeds)))

\* C6 amended: after a successful load the sequence is the seeds held before
\* the call together with the seeds of the selected files, the whole of it
\* in ascending name order
C6_AppendedThenAllSorted ==
    LoadOk => /\ IsPermutation(seeds, prevSeeds \o SeedsOf(lastFiles, Len(lastFiles)))
              /\ Ascending(seeds)

C6_Witness ==
    /\ LoadOk
    /\ prevSeeds # <<>>
    /\ Len(seeds) > Len(prevSeeds)
    /\ ~IsPrefix(prevSeeds, seeds)

\* C7: when a selected file cannot be read, the load returns an error naming
\* the first such file, and the sequence is the one held before the call
\* followed by the seeds of the selected files listed before that file
C7_FileReadFailure ==
    LET bad == {k \in DOMAIN lastFiles : IsSql(lastFiles[k].Name) /\ CannotBeRead(lastFiles[k])} IN
    bad # {} =>
        LET k == CHOOSE m \in bad : \A n \in bad : m <= n IN
        /\ loadErr.msg = "failed to parse seed file"
        /\ loadErr.name = lastFiles[k].Name
        /\ seeds = prevSeeds \o SeedsOf(lastFiles, k - 1)

C7_Witness ==
    /\ loadErr.msg = "failed to parse seed file"
    /\ prevSeeds # <<>>
    /\ Len(seeds) > Len(prevSeeds)
    /\ \E k \in DOMAIN lastFiles :
         /\ lastFiles[k].Name = loadErr.name
         /\ \E n \in (k + 1)..Len(lastFiles) : IsSql(lastFiles[n].Name)

\* C8: when the directory cannot be listed, the load returns the
\* directory-read error and the sequence is what it was before the call
C8_DirectoryReadFailure ==
    loads > 0 /\ ~lastDir.exists =>
        /\ loadErr.msg = "failed to read seeds directory"
        /\ seeds = prevSeeds

C8_Witness ==
    /\ loads > 0 /\ ~lastDir.exists
    /\ loadErr # Nil
    /\ seeds # <<>>

\* C9: a successful load on a fresh Seeder yields exactly the seeds of the
\* .sql files of the directory, in strictly ascending order of name, whatever
\* the order the directory was enumerated in
C9_FreshLoadSorted ==
    loads = 1 /\ loadErr = Nil =>
        LET sel == {e \in Range(lastDir.entries) : IsSql(e.Name)} IN
        /\ Len(seeds) = Cardinality(sel)
        /\ {seeds[i] : i \in DOMAIN seeds} = {SeedOf(e) : e \in sel}
        /\ \A i, j \in DOMAIN seeds : i < j => StringLess(seeds[i].Name, seeds[j].Name)

C9_Witness ==
    /\ loads = 1 /\ loadErr = Nil
    /\ Len(seeds) >= 2
    /\ Len(lastDir.entries) > Len(seeds)
    /\ \E i, j \in DOMAIN lastDir.entries :
         /\ i < j /\ IsSql(lastDir.entries[i].Name) /\ IsSql(lastDir.entries[j].Name)
         /\ StringLess(lastDir.entries[j].Name, lastDir.entries[i].Name)

\* ---- properties of repeated runs ----
Begins(n) == {p \in 1..n : Is(p, "begin")}

C10_EveryRunFromFirstSeed ==
    /\ (runs > 0 /\ runSeeds # <<>> /\ ~(pc = "loop" /\ idx = 1)) =>
           trace # <<>> /\ Is(1, "begin") /\ trace[1].i = 1
    /\ \A p \in DOMAIN trace : Is(p, "begin") => trace[p].i = Cardinality(Begins(p))
    /\ \A p \in DOMAIN trace :
         (Is(p, "exec") /\ Rows(runSeeds[trace[p].i].SQL) \cap (db0 \cup CommittedRows(p - 1)) # {}) =>
             /\ ~trace[p].ok
             /\ Returned => /\ runErr.msg = "error executing seed"
                             /\ runErr.name = runSeeds[trace[p].i].Name

\* C10: a run does not change the seed sequence and every run starts with
\* the first seed and takes the seeds in stored order, whatever earlier runs
\* committed; executing a seed whose fixed-key insert is already in the
\* database fails, and the run returns the execution error naming it
C10_RerunReexecutes ==
    /\ []C10_EveryRunFromFirstSeed
    /\ [][(pc # "idle" \/ pc' # "idle") => seeds' = seeds /\ runSeeds' = seeds]_vars

C10_Witness ==
    /\ runs = 2 /\ Returned
    /\ db0 # {}
    /\ Len(runSeeds) >= 2
    /\ Rows(runSeeds[1].SQL) \subseteq db0
    /\ Rows(runSeeds[2].SQL) # {} /\ Rows(runSeeds[2].SQL) \subseteq db0
    /\ \E p \in DOMAIN trace : Is(p, "exec") /\ trace[p].i = 2 /\ ~trace[p].ok

\* ---- properties of the progress notices ----
\* the names of the seeds whose commit succeeded in trace[1..n], in commit order
RECURSIVE CommittedNames(_)
CommittedNames(n) ==
    IF n = 0 THEN <<>>
    ELSE IF Is(n, "commit") /\ trace[n].ok
         THEN Append(CommittedNames(n - 1), runSeeds[trace[n].i].Name)
         ELSE CommittedNames(n - 1)

\* C11: the notices of a run are the names of the seeds it committed, one
\* each and in commit order; the notice of a seed comes after its commit,
\* and a seed whose begin, execution or commit failed gets none
C11_NoticePerCommittedSeed ==
    LET names == CommittedNames(Len(trace)) IN
    IF pc = "print"
    THEN /\ names # <<>>
         /\ out = SubSeq(names, 1, Len(names) - 1)
    ELSE out = names

C11_Witness ==
    /\ Returned /\ runErr # Nil
    /\ Len(out) = 2
    /\ Len(runSeeds) > 2
    /\ \E p \in DOMAIN trace : ~trace[p].ok

\* ---- properties of accumulated loads ----
Selected(files) == {k \in DOMAIN files : IsSql(files[k].Name)}

\* C12: a successful load removes, replaces and merges nothing: every seed
\* value occurs as often as it did before the call plus once for each
\* selected file that yields it
C12_LoadsAccumulate ==
    LoadOk =>
        /\ Len(seeds) = Len(prevSeeds) + Cardinality(Selected(lastFiles))
        /\ \A x \in Range(seeds) \cup Range(prevSeeds) \cup {SeedOf(lastFiles[k]) : k \in Selected(lastFiles)} :
             Count(seeds, x) =
                 Count(prevSeeds, x) + Cardinality({k \in Selected(lastFiles) : SeedOf(lastFiles[k]) = x})

\* the same directory of two .sql files loaded twice on a fresh Seeder
C12_Witness ==
    /\ loads = 2 /\ LoadOk
    /\ Cardinality(Selected(lastFiles)) = 2
    /\ prevSeeds = SeedsOf(lastFiles, Len(lastFiles))
    /\ Len(seeds) = 4
    /\ \A i \in DOMAIN seeds : Cardinality({j \in DOMAIN seeds : seeds[j].Name = seeds[i].Name}) = 2

\* C13: no seed ever has a name whose extension is not ".sql", and a
\* successful load adds one seed for each entry whose name ends in ".sql" and
\* none for any other entry (n.txt, s.sql.bak, X.SQL)
C13_ExactlySqlExtension ==
    /\ \A i \in DOMAIN seeds : IsSql(seeds[i].Name)
    /\ LoadOk =>
         \A k \in DOMAIN lastFiles :
             Cardinality({i \in DOMAIN seeds : seeds[i].Name = lastFiles[k].Name}) =
                 Cardinality({i \in DOMAIN prevSeeds : prevSeeds[i].Name = lastFiles[k].Name})
                 + (IF IsSql(lastFiles[k].Name) THEN 1 ELSE 0)

C13_Witness ==
    /\ LoadOk
    /\ \E k \in DOMAIN lastFiles : lastFiles[k].Name = sBak
    /\ \E k \in DOMAIN lastFiles : lastFiles[k].Name = xSQL
    /\ Len(seeds) = Len(prevSeeds) + 2

\* C14: a run on an empty sequence begins no transaction, executes nothing,
\* prints nothing, leaves the database alone and returns nil
C14_EmptyRunIsNoOp ==
    runs > 0 /\ runSeeds = <<>> =>
        /\ trace = <<>>
        /\ out = <<>>
        /\ db = db0
        /\ runErr = Nil
        /\ pc \in {"loop", "idle"}

C14_Witness ==
    /\ Returned /\ runSeeds = <<>>
    /\ loads = 2
    /\ \/ loadErr.msg = "failed to read seeds directory"
       \/ loadErr = Nil /\ lastFiles # <<>>

\* ---- parsing one seed file: every content up to MaxContent characters ----
ContentChars == {" ", "\n", "i", ";"}
Contents == UNION {[1..n -> ContentChars] : n \in 0..MaxContent}

\* a fresh Seeder, and in lastDir the directory the load is going to be
\* given: one .sql file of any content
InitParse ==
    /\ seeds = <<>>
    /\ prevSeeds = <<>>
    /\ lastDir \in {[path |-> <<"p">>, exists |-> TRUE, entries |-> <<File(name, c)>>] :
                        name \in {aSql, cSql}, c \in Contents}
    /\ lastFiles = <<>>
    /\ loadErr = Nil
    /\ loads = 0
    /\ runs = 0
    /\ pc = "idle"
    /\ idx = 0
    /\ trace = <<>>
    /\ db = {}
    /\ db0 = {}
    /\ runSeeds = <<>>
    /\ out = <<>>
    /\ runErr = Nil

\* LoadSeeds called once, with that directory
LoadSeedsParse ==
    /\ pc = "idle"
    /\ loads = 0
    /\ Load(lastDir)
    /\ UNCHANGED runVars

NextParse == LoadSeedsParse

SpecParse == InitParse /\ [][NextParse]_vars

\* C15: the SQL of a loaded seed is the file content between its first and
\* its last character that is not white space, unchanged (empty when the
\* content is all white space), so it neither starts nor ends with white
\* space and trimming it again changes nothing; its name is the file name
C15_SqlIsTrimmedContent ==
    loads = 1 =>
        /\ loadErr = Nil
        /\ Len(seeds) = 1
        /\ LET f == lastDir.entries[1]
               c == f.Content
               sql == seeds[1].SQL
               black == {i \in DOMAIN c : c[i] \notin Whitespace}
           IN /\ seeds[1].Name = f.Name
              /\ \A i \in black : \A j \in black :
                   (\A k \in black : i <= k /\ k <= j) => sql = SubSeq(c, i, j)
              /\ black = {} => sql = <<>>
              /\ sql # <<>> => sql[1] \notin Whitespace /\ sql[Len(sql)] \notin Whitespace
              /\ TrimSpace(sql) = sql

\* content "\n" "i" " " ";" or the like: white space at an end and inside
C15_Witness ==
    /\ loads = 1
    /\ LET c == lastDir.entries[1].Content IN
       /\ Len(c) = 4
       /\ c[1] \in Whitespace
       /\ c[3] \in Whitespace
       /\ Len(seeds[1].SQL) = 3

\* ---- properties of the transaction of one seed ----
\* C16: a seed is begun at most once in a run; an execution is the call
\* right after the successful begin of its seed and carries that seed's SQL;
\* a commit is the call right after a successful execution and a rollback
\* the call right after a failed one, so a transaction gets one execution and
\* one end, and nothing follows a failed begin or a failed commit
C16_OneExecOneEndPerSeed ==
    /\ \A p, q \in DOMAIN trace : Is(p, "begin") /\ Is(q, "begin") /\ trace[p].i = trace[q].i => p = q
    /\ \A p \in DOMAIN trace :
         /\ Is(p, "exec") =>
               /\ p > 1 /\ Is(p - 1, "begin") /\ trace[p - 1].ok /\ trace[p - 1].i = trace[p].i
               /\ trace[p].sql = runSeeds[trace[p].i].SQL
         /\ Is(p, "commit") =>
               p > 1 /\ Is(p - 1, "exec") /\ trace[p - 1].ok /\ trace[p - 1].i = trace[p].i
         /\ Is(p, "rollback") =>
               p > 1 /\ Is(p - 1, "exec") /\ ~trace[p - 1].ok /\ trace[p - 1].i = trace[p].i
         /\ (Is(p, "begin") \/ Is(p, "commit")) /\ ~trace[p].ok => p = Len(trace)
    /\ Returned =>
         \A p \in DOMAIN trace :
             /\ Is(p, "begin") /\ trace[p].ok => p < Len(trace) /\ Is(p + 1, "exec")
             /\ Is(p, "exec") => p < Len(trace) /\ Ends(p + 1, p)

C16_Witness ==
    /\ Returned
    /\ \E p, q \in DOMAIN trace :
         /\ Is(p, "commit") /\ trace[p].ok
         /\ Is(q, "commit") /\ ~trace[q].ok

\* C18: when a run has returned, every transaction it began has had a
\* commit or a rollback called on it
C18_NoOpenTransactionAtReturn ==
    Returned => OpenTx = {}

C18_Witness ==
    /\ Returned /\ runErr # Nil
    /\ Is(Len(trace), "rollback") /\ ~trace[Len(trace)].ok
    /\ Cardinality(Begins(Len(trace))) = 2

\* ---- subdirectories ----
NotDir(f) == ~f.IsDir

\* C17: subdirectories have no influence on a load: its outcome is the one
\* the regular files of the directory alone give, failure at the first
\* selected file that cannot be read, success otherwise
C17_SubdirectoriesIgnored ==
    loads > 0 /\ lastDir.exists =>
        LET files == SelectSeq(lastFiles, NotDir)
            bad == {k \in Selected(files) : ~files[k].Readable}
        IN IF bad # {}
           THEN LET k == CHOOSE m \in bad : \A n \in bad : m <= n IN
                /\ loadErr.name = files[k].Name
                /\ seeds = prevSeeds \o SeedsOf(files, k - 1)
           ELSE /\ loadErr = Nil
                /\ IsPermutation(seeds, prevSeeds \o SeedsOf(files, Len(files)))

\* ---- order across loads ----
\* C19: after a successful load no seed of the sequence has a name less than
\* the name of the seed before it, and a run of that sequence begins its
\* transactions in that order of names
C19_WholeSequenceSortedAfterLoad ==
    LoadOk =>
        /\ \A i \in 1..(Len(seeds) - 1) : ~StringLess(seeds[i + 1].Name, seeds[i].Name)
        /\ runs > 0 /\ runSeeds = seeds =>
             \A p, q \in Begins(Len(trace)) :
                 p < q => ~StringLess(runSeeds[trace[q].i].Name, runSeeds[trace[p].i].Name)

\* the load before left one seed and failed (only a load that fails leaves a
\* single seed here); the successful load put its seeds in front of that
\* seed, and the run took all of them
C19_Witness ==
    /\ loads = 2 /\ LoadOk
    /\ Len(prevSeeds) = 1
    /\ Len(seeds) = 3
    /\ seeds[1] # prevSeeds[1]
    /\ Returned /\ runSeeds = seeds
    /\ Cardinality(Begins(Len(trace))) = 3
====
